---- MODULE Spec2Model ----
(***************************************************************************)
(* A model of the left-leaning red-black tree of                           *)
(* alexandremahdhaoui/llrb: the node primitives of internal/llrb.go and    *)
(* the Tree handle shown in README.md.                                     *)
(*                                                                         *)
(* Go mutates nodes in place through pointers.  Every node is owned by     *)
(* exactly one parent link, so a subtree is modelled by its value: a       *)
(* record for a node, Nil for the nil pointer.  A nil dereference panics;  *)
(* the operations that can panic return a record                           *)
(*   [ok, t, rot]                                                          *)
(* ok  : the call returned normally,                                       *)
(* t   : ok  -> the returned subtree root,                                 *)
(*       ~ok -> the subtree as it is now seen through the pointer that was *)
(*              passed in (the in-place writes made before the panic),     *)
(* rot : the returned root is another node than the argument (a rotation   *)
(*       moved the argument below the returned root).                      *)
(***************************************************************************)
EXTENDS Integers, Sequences, FiniteSets, TLC

\* ---------------------------------------------------------------- bounds
\* Spec     : keys 1..MaxKey; the keys up to MaxFreeKey are inserted with any
\*            value of 1..MaxVal, the others with one value per key
\* SpecAsc  : the ascending run over 1..N for every N up to MaxAsc, any values
MaxKey == 10
MaxVal == 2
MaxFreeKey == 1
MaxAsc == 8
\* SpecFn   : a primitive is applied to a node with keys 1..m, m up to
\*            MaxFnKey, whose children have up to MaxFnBlack black nodes on
\*            every path
MaxFnKey == 11
MaxFnBlack == 2

KEYS == 1..MaxKey
VALS == 1..MaxVal

KeyVal(key) == (key % MaxVal) + 1

ValsOf(key) == IF key <= MaxFreeKey THEN VALS ELSE {KeyVal(key)}

\* SpecDeep : the caller first inserts these keys in this order (the shortest
\*            build after which a Delete leaves a tree that is no LLRB tree)
BuildOrder == <<1, 2, 3, 6, 7, 4, 8, 9, 5, 10, 11, 12>>

\* ------------------------------------------------------------------ NODE
Left == 0
Right == 1

ZeroVal == 0

Nil == [nil |-> TRUE]

NewNode(key, value) ==
    [Key |-> key, Value |-> value,
     children |-> [d \in {Left, Right} |-> Nil],
     isBlack |-> FALSE]

NodeLeft(n) == n.children[Left]

NodeRight(n) == n.children[Right]

IsRed(node) == node # Nil /\ ~node.isBlack

\* ---------------------------------------------------------------- SEARCH
RECURSIVE Search(_, _)
Search(n, key) ==
    IF n = Nil THEN [value |-> ZeroVal, found |-> FALSE]
    ELSE IF key = n.Key THEN [value |-> n.Value, found |-> TRUE]
    ELSE IF key < n.Key THEN Search(n.children[Right], key)
    ELSE Search(n.children[Left], key)

\* the child Search moves to from a node whose key is not the search key
SearchChild(n, key) ==
    IF key < n.Key THEN n.children[Right] ELSE n.children[Left]

RECURSIVE SearchMin(_)
SearchMin(n) ==
    IF NodeLeft(n) = Nil THEN n ELSE SearchMin(NodeLeft(n))

\* ------------------------------------------------------------- ROTATIONS
\* mutant: the pivot's inner subtree is not handed to the old root
RotateLosingInner(root, direction) ==
    LET x == root.children[1 - direction]
        root1 == [root EXCEPT !.children[1 - direction] = Nil,
                              !.isBlack = FALSE]
    IN  [x EXCEPT !.children[direction] = root1,
                  !.isBlack = root.isBlack]

\* mutant: the colours of the pivot and of the old root are left as they were
RotateKeepingColors(root, direction) ==
    LET x == root.children[1 - direction]
        root1 == [root EXCEPT !.children[1 - direction] = x.children[direction]]
    IN  [x EXCEPT !.children[direction] = root1]

Rotate(root, direction) ==
    LET x == root.children[1 - direction]
        root1 == [root EXCEPT !.children[1 - direction] = x.children[direction],
                              !.isBlack = FALSE]
    IN  [x EXCEPT !.children[direction] = root1,
                  !.isBlack = root.isBlack]

\* ---------------------------------------------------------- LLRB HELPERS
ToggleChild(c) == IF c = Nil THEN Nil ELSE [c EXCEPT !.isBlack = ~c.isBlack]

FlipColor(node) ==
    [node EXCEPT !.isBlack = ~node.isBlack,
                 !.children = [d \in {Left, Right} |-> ToggleChild(node.children[d])]]

\* mutant: a red left child is always rotated up
FixUpEager(root) ==
    LET r1 == IF IsRed(NodeRight(root)) THEN Rotate(root, Left) ELSE root
        r2 == IF IsRed(NodeLeft(r1)) THEN Rotate(r1, Right) ELSE r1
    IN  IF IsRed(NodeLeft(r2)) /\ IsRed(NodeRight(r2)) THEN FlipColor(r2) ELSE r2

\* mutant: two red children are left red
FixUpWithoutFlip(root) ==
    LET r1 == IF IsRed(NodeRight(root)) THEN Rotate(root, Left) ELSE root
    IN  IF IsRed(NodeLeft(r1)) /\ IsRed(NodeLeft(NodeLeft(r1)))
        THEN Rotate(r1, Right) ELSE r1

FixUp(root) ==
    LET r1 == IF IsRed(NodeRight(root)) THEN Rotate(root, Left) ELSE root
        r2 == IF IsRed(NodeLeft(r1)) /\ IsRed(NodeLeft(NodeLeft(r1)))
              THEN Rotate(r1, Right) ELSE r1
    IN  IF IsRed(NodeLeft(r2)) /\ IsRed(NodeRight(r2)) THEN FlipColor(r2) ELSE r2

Ok(t) == [ok |-> TRUE, t |-> t, rot |-> FALSE]

Moved(t) == [ok |-> TRUE, t |-> t, rot |-> TRUE]

\* mutant: the nil dereference goes unnoticed and the call returns
PanicSwallowed(t) == [ok |-> TRUE, t |-> t, rot |-> FALSE]

Panic(t) == [ok |-> FALSE, t |-> t, rot |-> FALSE]

\* mutant: no red link is moved to the left
MoveRedLeftIdle(root) == Ok(root)

MoveRedLeft(root) ==
    LET f == FlipColor(root)
    IN  IF NodeRight(f) = Nil THEN Panic(f)
        ELSE IF IsRed(NodeLeft(NodeRight(f)))
        THEN LET f1 == [f EXCEPT !.children[Right] = Rotate(NodeRight(f), Right)]
             IN  Moved(FlipColor(Rotate(f1, Left)))
        ELSE Ok(f)

MoveRedRight(root) ==
    LET f == FlipColor(root)
    IN  IF NodeLeft(f) = Nil THEN Panic(f)
        ELSE IF IsRed(NodeLeft(NodeLeft(f)))
        THEN Moved(Rotate(f, Right))
        ELSE Ok(f)

\* ------------------------------------------------------------- INSERTION
RECURSIVE Insert(_, _, _)

\* mutant: the comparison that picks the direction is inverted
InsertMirrored(root, key, value) ==
    IF root = Nil THEN NewNode(key, value)
    ELSE IF key = root.Key THEN FixUp([root EXCEPT !.Value = value])
    ELSE LET direction == IF key < root.Key THEN Right ELSE Left
         IN  FixUp([root EXCEPT !.children[direction] =
                                    Insert(root.children[direction], key, value)])

Insert(root, key, value) ==
    IF root = Nil THEN NewNode(key, value)
    ELSE IF key = root.Key THEN FixUp([root EXCEPT !.Value = value])
    ELSE LET direction == IF key < root.Key THEN Left ELSE Right
         IN  FixUp([root EXCEPT !.children[direction] =
                                    Insert(root.children[direction], key, value)])

\* -------------------------------------------------------------- DELETION
RECURSIVE DeleteMin(_)
DeleteMin(root) ==
    IF NodeLeft(root) = Nil THEN Ok(Nil)
    ELSE
      LET m == IF ~IsRed(NodeLeft(root)) /\ ~IsRed(NodeLeft(NodeLeft(root)))
               THEN MoveRedLeft(root) ELSE Ok(root)
      IN  IF ~m.ok THEN Panic(m.t)
          ELSE
            LET d == DeleteMin(NodeLeft(m.t))
            IN  IF d.ok THEN Ok(FixUp([m.t EXCEPT !.children[Left] = d.t]))
                ELSE Panic(IF m.rot THEN d.t
                           ELSE [m.t EXCEPT !.children[Left] = d.t])

RECURSIVE Delete(_, _)
Delete(root, key) ==
    IF root = Nil THEN Panic(Nil)
    ELSE IF key < root.Key THEN
      IF NodeLeft(root) = Nil THEN Panic(root)
      ELSE
        LET m == IF ~IsRed(NodeLeft(root)) /\ ~IsRed(NodeLeft(NodeLeft(root)))
                 THEN MoveRedLeft(root) ELSE Ok(root)
        IN  IF ~m.ok THEN Panic(m.t)
            ELSE
              LET d == Delete(NodeLeft(m.t), key)
              IN  IF d.ok THEN Ok(FixUp([m.t EXCEPT !.children[Left] = d.t]))
                  ELSE Panic(IF m.rot THEN d.t
                             ELSE [m.t EXCEPT !.children[Left] = d.t])
    ELSE
      LET rot1 == IsRed(NodeLeft(root))
          r1 == IF rot1 THEN Rotate(root, Right) ELSE root
      IN  IF key = r1.Key /\ NodeRight(r1) = Nil THEN Ok(Nil)
          ELSE
            LET m == IF ~IsRed(NodeLeft(r1)) /\ ~IsRed(NodeRight(r1))
                     THEN MoveRedRight(r1) ELSE Ok(r1)
                \* after Rotate(root, Right) the right child is the old root,
                \* red, so MoveRedRight is only called when rot1 is false
                rot == rot1 \/ m.rot
            IN  IF ~m.ok THEN Panic(m.t)
                ELSE IF key = m.t.Key THEN
                  LET minNode == SearchMin(NodeRight(m.t))
                      r3 == [m.t EXCEPT !.Key = minNode.Key,
                                        !.Value = minNode.Value]
                      d == DeleteMin(NodeRight(m.t))
                  IN  IF d.ok THEN Ok(FixUp([r3 EXCEPT !.children[Right] = d.t]))
                      ELSE Panic(IF rot THEN d.t
                                 ELSE [r3 EXCEPT !.children[Right] = d.t])
                ELSE
                  LET d == Delete(NodeRight(m.t), key)
                  IN  IF d.ok THEN Ok(FixUp([m.t EXCEPT !.children[Right] = d.t]))
                      ELSE Panic(IF rot THEN d.t
                                 ELSE [m.t EXCEPT !.children[Right] = d.t])

\* The descent of Delete and DeleteMin, frame by frame: TRUE when every
\* recursive call is made on a node that is red or has a red left child, and
\* the frame that returns nil (detaching its node) does so on a red node.
EntersSafely(n) == n # Nil /\ (IsRed(n) \/ IsRed(NodeLeft(n)))

RECURSIVE DeleteMinSafe(_)
DeleteMinSafe(root) ==
    IF NodeLeft(root) = Nil THEN IsRed(root)
    ELSE
      LET m == IF ~IsRed(NodeLeft(root)) /\ ~IsRed(NodeLeft(NodeLeft(root)))
               THEN MoveRedLeft(root) ELSE Ok(root)
      IN  /\ m.ok
          /\ EntersSafely(NodeLeft(m.t))
          /\ DeleteMinSafe(NodeLeft(m.t))

RECURSIVE DeleteSafe(_, _)
DeleteSafe(root, key) ==
    IF root = Nil THEN FALSE
    ELSE IF key < root.Key THEN
      IF NodeLeft(root) = Nil THEN FALSE
      ELSE
        LET m == IF ~IsRed(NodeLeft(root)) /\ ~IsRed(NodeLeft(NodeLeft(root)))
                 THEN MoveRedLeft(root) ELSE Ok(root)
        IN  /\ m.ok
            /\ EntersSafely(NodeLeft(m.t))
            /\ DeleteSafe(NodeLeft(m.t), key)
    ELSE
      LET r1 == IF IsRed(NodeLeft(root)) THEN Rotate(root, Right) ELSE root
      IN  IF key = r1.Key /\ NodeRight(r1) = Nil THEN IsRed(r1)
          ELSE
            LET m == IF ~IsRed(NodeLeft(r1)) /\ ~IsRed(NodeRight(r1))
                     THEN MoveRedRight(r1) ELSE Ok(r1)
            IN  /\ m.ok
                /\ EntersSafely(NodeRight(m.t))
                /\ IF key = m.t.Key THEN DeleteMinSafe(NodeRight(m.t))
                   ELSE DeleteSafe(NodeRight(m.t), key)

\* ---------------------------------------------------------- NODE HELPERS
ColorBlack == 0
ColorRed == 1

\* mutant: the colour is not written
SetColorSkipped(node, color) ==
    IF color \notin {ColorBlack, ColorRed} \/ node = Nil THEN Panic(node)
    ELSE Ok(node)

SetColor(node, color) ==
    IF color \notin {ColorBlack, ColorRed} \/ node = Nil THEN Panic(node)
    ELSE Ok([node EXCEPT !.isBlack = (color = ColorBlack)])

\* ------------------------------------------------------------------ TREE
\* root   : Tree.root
\* status : "ok" while every call so far returned, "panic" once a call
\*          panicked (the panic is not recovered: the program stops)
\* model  : the key/value pairs the calls made so far should have left in
\*          the tree (Insert(k, v) puts <<k, v>>, Delete(k) removes k)
\* last   : the kind of the last call: "none", "insert" or "delete"
\* arg    : the node a primitive was applied to, when a primitive is applied
\*          on its own (SpecFn); Nil under the callers of the Tree handle
VARIABLES root, status, model, last, arg

vars == <<root, status, model, last, arg>>

RECURSIVE InOrder(_)
InOrder(n) ==
    IF n = Nil THEN <<>>
    ELSE InOrder(NodeLeft(n)) \o <<n.Key>> \o InOrder(NodeRight(n))

KeySet(n) == {InOrder(n)[i] : i \in 1..Len(InOrder(n))}

ModelKeys == {p[1] : p \in model}

Init ==
    /\ root = Nil
    /\ status = "ok"
    /\ model = {}
    /\ last = "none"
    /\ arg = Nil

TreeSearch(key) == Search(root, key)

\* the two calls that Tree.Insert makes on the root it holds
TreeInsertCalls(key, value) == SetColor(Insert(root, key, value), ColorBlack)

TreeInsert(key, value) ==
    /\ status = "ok"
    /\ LET s == TreeInsertCalls(key, value)
       IN  /\ root' = s.t
           /\ status' = IF s.ok THEN "ok" ELSE "panic"
    /\ model' = {p \in model : p[1] # key} \cup {<<key, value>>}
    /\ last' = "insert"
    /\ arg' = arg

\* mutant: the root returned by Delete is not stored in the handle
TreeDeleteNotStored(key) ==
    /\ status = "ok"
    /\ LET d == Delete(root, key)
       IN  root' = root /\ status' = IF d.ok THEN "ok" ELSE "panic"
    /\ model' = {p \in model : p[1] # key}
    /\ last' = "delete"
    /\ arg' = arg

TreeDelete(key) ==
    /\ status = "ok"
    /\ LET d == Delete(root, key)
           s == SetColor(d.t, ColorBlack)
       IN  IF ~d.ok THEN root' = d.t /\ status' = "panic"
           ELSE root' = s.t /\ status' = IF s.ok THEN "ok" ELSE "panic"
    /\ model' = {p \in model : p[1] # key}
    /\ last' = "delete"
    /\ arg' = arg

\* any call sequence: Insert of any key, Delete of any key that is in the tree
DoInsert == \E key \in KEYS : \E value \in ValsOf(key) : TreeInsert(key, value)

DoDelete == \E key \in KeySet(root) : TreeDelete(key)

Next == DoInsert \/ DoDelete

Spec == Init /\ [][Next]_vars

\* a caller that builds a tree by inserting the keys of BuildOrder in that
\* order and, from any point on, deletes keys that are in the tree and inserts
\* again keys it has stored
Built(n) == {BuildOrder[i] : i \in 1..n}

DeepBuild ==
    /\ last # "delete"
    /\ \E n \in 0..(Len(BuildOrder) - 1) :
          /\ ModelKeys = Built(n)
          /\ TreeInsert(BuildOrder[n + 1], KeyVal(BuildOrder[n + 1]))

DeepOverwrite ==
    \E key \in ModelKeys : TreeInsert(key, KeyVal(key))

DeepDelete == \E key \in KeySet(root) : TreeDelete(key)

NextDeep == DeepBuild \/ DeepOverwrite \/ DeepDelete

SpecDeep == Init /\ [][NextDeep]_vars

\* the ascending run: Insert 1..N in ascending order, then Delete 1..N in
\* ascending order
AscInsert ==
    /\ last # "delete"
    /\ ModelKeys = 1..Cardinality(ModelKeys)
    /\ Cardinality(ModelKeys) < MaxAsc
    /\ \E value \in VALS : TreeInsert(Cardinality(ModelKeys) + 1, value)

AscDelete ==
    /\ ModelKeys # {}
    /\ \E key \in ModelKeys :
          /\ \A j \in ModelKeys : key <= j
          /\ TreeDelete(key)

NextAsc == AscInsert \/ AscDelete

SpecAsc == Init /\ [][NextAsc]_vars

\* the primitives applied on their own.  MkNode builds a node over two
\* subtrees; LLRBSub(lo, hi, bh, black) is the set of subtrees that hold
\* exactly the keys lo..hi, satisfy invariants 1-4, have bh black nodes on
\* every path to an absent child, and whose root is black (black = TRUE; the
\* absent subtree counts as black) or red (black = FALSE)
MkNode(key, l, r, black) ==
    [NewNode(key, KeyVal(key)) EXCEPT
        !.children = [d \in {Left, Right} |-> IF d = Left THEN l ELSE r],
        !.isBlack = black]

RECURSIVE LLRBSub(_, _, _, _)
LLRBSub(lo, hi, bh, black) ==
    IF black
    THEN IF lo > hi THEN (IF bh = 0 THEN {Nil} ELSE {})
         ELSE IF bh = 0 THEN {}
         ELSE UNION {{MkNode(k, l, r, TRUE) :
                         l \in LLRBSub(lo, k - 1, bh - 1, TRUE)
                                 \cup LLRBSub(lo, k - 1, bh - 1, FALSE),
                         r \in LLRBSub(k + 1, hi, bh - 1, TRUE)} : k \in lo..hi}
    ELSE IF lo > hi THEN {}
         ELSE UNION {{MkNode(k, l, r, FALSE) :
                         l \in LLRBSub(lo, k - 1, bh, TRUE),
                         r \in LLRBSub(k + 1, hi, bh, TRUE)} : k \in lo..hi}

AnySub(lo, hi, bh) == LLRBSub(lo, hi, bh, TRUE) \cup LLRBSub(lo, hi, bh, FALSE)

\* a node of either colour over two such subtrees of equal black height
FnInputs ==
    UNION {{MkNode(k, l, r, b) :
               l \in AnySub(1, k - 1, bh), r \in AnySub(k + 1, m, bh)} :
           <<m, k, bh, b>> \in {t \in (1..MaxFnKey) \X (1..MaxFnKey)
                                       \X (0..MaxFnBlack) \X BOOLEAN :
                                   t[2] <= t[1]}}

InitFn ==
    /\ arg \in FnInputs
    /\ root = arg
    /\ status = "ok"
    /\ model = {}
    /\ last = "none"

RotateName(direction) == IF direction = Left THEN "rotateleft" ELSE "rotateright"

ApplyRotate ==
    /\ last = "none"
    /\ \E direction \in {Left, Right} :
          /\ arg.children[1 - direction] # Nil
          /\ root' = Rotate(arg, direction)
          /\ last' = RotateName(direction)
    /\ UNCHANGED <<status, model, arg>>

ApplyFixUp ==
    /\ last = "none"
    /\ root' = FixUp(arg)
    /\ last' = "fixup"
    /\ UNCHANGED <<status, model, arg>>

ApplyMoveRedLeft ==
    /\ last = "none"
    /\ LET m == MoveRedLeft(arg)
       IN  root' = m.t /\ status' = IF m.ok THEN "ok" ELSE "panic"
    /\ last' = "moveredleft"
    /\ UNCHANGED <<model, arg>>

ApplyMoveRedRight ==
    /\ last = "none"
    /\ LET m == MoveRedRight(arg)
       IN  root' = m.t /\ status' = IF m.ok THEN "ok" ELSE "panic"
    /\ last' = "moveredright"
    /\ UNCHANGED <<model, arg>>

NextFn == ApplyRotate \/ ApplyFixUp \/ ApplyMoveRedLeft \/ ApplyMoveRedRight

SpecFn == InitFn /\ [][NextFn]_vars

\* a caller that builds a tree of eighteen keys by inserting the keys of
\* TallOrder in that order and then deletes keys of TallDeletes, in any order
TallOrder == <<18, 14, 12, 17, 9, 7, 6, 10, 16, 5, 4, 1, 13, 2, 8, 3, 11, 15>>

TallDeletes == {3, 4, 6, 8, 11, 15}

TallBuilt(n) == {TallOrder[i] : i \in 1..n}

TallBuild ==
    /\ last # "delete"
    /\ \E n \in 0..(Len(TallOrder) - 1) :
          /\ ModelKeys = TallBuilt(n)
          /\ TreeInsert(TallOrder[n + 1], KeyVal(TallOrder[n + 1]))

TallDelete ==
    /\ ModelKeys = TallBuilt(Len(TallOrder)) \/ last = "delete"
    /\ \E key \in TallDeletes \cap KeySet(root) : TreeDelete(key)

NextTall == TallBuild \/ TallDelete

SpecTall == Init /\ [][NextTall]_vars

\* a caller that also breaks the precondition of Delete: Insert of any key
\* (one value per key), Delete of any key that is in the tree, and Delete of
\* any key that is not in the tree (the empty tree included)
DoInsertKey == \E key \in KEYS : TreeInsert(key, KeyVal(key))

DoDeleteAbsent == \E key \in KEYS \ KeySet(root) : TreeDelete(key)

NextAbsent == DoInsertKey \/ DoDelete \/ DoDeleteAbsent

SpecAbsent == Init /\ [][NextAbsent]_vars

\* a caller that only inserts keys it has not stored yet, in any order: every
\* permutation of every subset of KEYS
InsertNew == \E key \in KEYS \ ModelKeys : TreeInsert(key, KeyVal(key))

NextIns == InsertNew

SpecIns == Init /\ [][NextIns]_vars

\* ------------------------------------------------------- tree predicates
RECURSIVE Nodes(_)
Nodes(n) ==
    IF n = Nil THEN {} ELSE {n} \cup Nodes(NodeLeft(n)) \cup Nodes(NodeRight(n))

RECURSIVE Size(_)
Size(n) == IF n = Nil THEN 0 ELSE 1 + Size(NodeLeft(n)) + Size(NodeRight(n))

\* the numbers of black nodes on the paths from n to an absent child
RECURSIVE BlackCounts(_)
BlackCounts(n) ==
    IF n = Nil THEN {0}
    ELSE {c + (IF n.isBlack THEN 1 ELSE 0) :
            c \in BlackCounts(NodeLeft(n)) \cup BlackCounts(NodeRight(n))}

BlackBalanced(n) == Cardinality(BlackCounts(n)) = 1

StrictlyIncreasing(s) == \A i \in 1..(Len(s) - 1) : s[i] < s[i + 1]

RECURSIVE Ordered(_)
Ordered(n) ==
    n = Nil \/
    /\ \A k \in KeySet(NodeLeft(n)) : k < n.Key
    /\ \A k \in KeySet(NodeRight(n)) : k > n.Key
    /\ Ordered(NodeLeft(n))
    /\ Ordered(NodeRight(n))

NoRedRed(n) ==
    \A m \in Nodes(n) : IsRed(m) => ~IsRed(NodeLeft(m)) /\ ~IsRed(NodeRight(m))

LeftLeaning(n) == \A m \in Nodes(n) : ~IsRed(NodeRight(m))

\* the key/value pairs stored in the tree
Pairs(n) == {<<m.Key, m.Value>> : m \in Nodes(n)}

\* how many nodes of the tree carry the key
Occurrences(n, key) ==
    Cardinality({i \in 1..Len(InOrder(n)) : InOrder(n)[i] = key})

Completed == status = "ok"

\* ----------------------------------------------------------------- claims

\* C1: for every key whose most recent call was Insert(k, v), Search(k)
\* returns (v, true).
C1_InsertThenSearch ==
    Completed =>
        \A p \in model : TreeSearch(p[1]) = [value |-> p[2], found |-> TRUE]

\* C2: after each completed Insert or Delete (of a key in the tree) every
\* path from the root to an absent child has the same number of black nodes.
C2_BlackBalance == Completed => BlackBalanced(root)

\* C3: after each completed call, every node's left subtree holds smaller
\* keys and its right subtree greater keys, and the in-order traversal is
\* strictly increasing.
C3_BSTOrdering ==
    Completed => Ordered(root) /\ StrictlyIncreasing(InOrder(root))

\* a Delete has just completed on a tree that keeps at least five keys on
\* three levels
C3_Witness ==
    /\ Completed
    /\ last = "delete"
    /\ Size(root) >= 5
    /\ NodeLeft(root) # Nil
    /\ NodeLeft(NodeLeft(root)) # Nil

\* C4: after each completed call no red node has a red child.
C4_NoRedRed == Completed => NoRedRed(root)

\* C5: after each completed call no node has a red right child.
C5_LeftLeaning == Completed => LeftLeaning(root)

\* C6: after every completed Insert and Delete the root held by the handle
\* is black (an absent root is not red).
C6_RootBlack == Completed => ~IsRed(root)

\* an Insert has just put the only node of the tree, which NewNode makes red
C6_Witness ==
    /\ Completed
    /\ last = "insert"
    /\ Size(root) = 1
    /\ root.isBlack

\* C7: a completed Delete(k) of a key in the tree removes exactly k: the
\* other keys stay, each with the value it had.
C7_DeleteRemovesExactly ==
    [][\A key \in KeySet(root) :
          (TreeDelete(key) /\ Completed') =>
              /\ KeySet(root') = KeySet(root) \ {key}
              /\ Len(InOrder(root')) = Len(InOrder(root)) - 1
              /\ Pairs(root') = {p \in Pairs(root) : p[1] # key}]_vars

\* C8: for every key never inserted, or whose most recent call was a
\* Delete, Search(k) returns found = false.
C8_AbsentNotFound ==
    Completed => \A k \in KEYS \ ModelKeys : ~TreeSearch(k).found

\* a Delete has just completed, keys remain in the tree, and the key that
\* would now be the smallest of the universe is not stored
C8_Witness ==
    /\ Completed
    /\ last = "delete"
    /\ Size(root) >= 3
    /\ 1 \notin ModelKeys
    /\ MaxKey \notin ModelKeys

\* C9: inserting 1..N ascending and then deleting 1..N ascending completes
\* every call and leaves the tree empty.
C9_AscendingRunCompletes ==
    /\ Completed
    /\ ModelKeys = {} => root = Nil

\* C10: Insert(k, v2) of a key whose most recent call was an Insert leaves
\* exactly one node with key k, holding v2, and the same number of nodes.
C10_Overwrite ==
    [][\A key \in ModelKeys : \A value \in VALS :
          TreeInsert(key, value) =>
              /\ Occurrences(root', key) = 1
              /\ {p \in Pairs(root') : p[1] = key} = {<<key, value>>}
              /\ Size(root') = Size(root)]_vars

\* the elements of a finite set of integers in ascending order
RECURSIVE SortedSeq(_)
SortedSeq(S) ==
    IF S = {} THEN <<>>
    ELSE LET m == CHOOSE x \in S : \A y \in S : x <= y
         IN  <<m>> \o SortedSeq(S \ {m})

\* C11: whatever the order in which a set of distinct keys is inserted into
\* an empty tree, the in-order traversal of the tree is the sorted sequence of
\* exactly those keys (so any two permutations give the same traversal).
C11_OrderIndependence ==
    Completed /\ InOrder(root) = SortedSeq(ModelKeys)

\* six or more keys that are not a prefix of the universe have been inserted
\* and the tree has nodes on both sides of its root
C11_Witness ==
    /\ Cardinality(ModelKeys) >= 6
    /\ ModelKeys # 1..Cardinality(ModelKeys)
    /\ NodeLeft(root) # Nil
    /\ NodeRight(root) # Nil

\* C12: Tree.Delete(k) on the empty tree, or on a reachable tree that does
\* not hold k, panics: it never returns normally (stated for every such
\* Delete that can be called in a reachable state).
C12_AbsentDeletePanics ==
    Completed => \A key \in KEYS \ KeySet(root) : ~Delete(root, key).ok

\* a Delete has panicked on a tree of four or more keys (a Delete of a key
\* that is in the tree panics only when it was the last key, and leaves no
\* root)
C12_Witness ==
    /\ status = "panic"
    /\ last = "delete"
    /\ root # Nil
    /\ Cardinality(ModelKeys) >= 4

\* C20: a Tree.Delete(k) that fails because k is absent from a non-empty
\* tree leaves the tree reachable from the handle's root exactly as it was.
C20_FailedDeleteNoEffect ==
    [][\A key \in KEYS \ KeySet(root) :
          (root # Nil /\ TreeDelete(key)) => root' = root]_vars

\* the number of nodes on the longest path from n to an absent child
RECURSIVE Height(_)
Height(n) ==
    IF n = Nil THEN 0
    ELSE LET hl == Height(NodeLeft(n))
             hr == Height(NodeRight(n))
         IN  1 + (IF hl > hr THEN hl ELSE hr)

\* C13: after each completed call a tree holding n keys has height at most
\* 2 * log2(n + 1), that is 2^height <= (n + 1)^2.
C13_HeightBound ==
    Completed => 2^Height(root) <= (Size(root) + 1) * (Size(root) + 1)

\* C14: at a node whose key differs from the search key Search moves to the
\* right child when the search key is greater and to the left child
\* otherwise, and on a tree with BST ordering it reports found = true
\* exactly for the keys stored in the tree.
C14_SearchDirection ==
    (Completed /\ Ordered(root)) =>
        /\ \A n \in Nodes(root) : \A key \in KEYS \ {n.Key} :
              SearchChild(n, key) =
                  IF key > n.Key THEN NodeRight(n) ELSE NodeLeft(n)
        /\ \A key \in KEYS : TreeSearch(key).found <=> key \in KeySet(root)

\* the two operations of Sedgewick's top-down LLRB deletion, as the claim
\* states them
SedgewickMoveRedLeft(h) ==
    LET f == FlipColor(h)
    IN  IF IsRed(NodeLeft(NodeRight(f)))
        THEN FlipColor(Rotate([f EXCEPT !.children[Right] =
                                            Rotate(NodeRight(f), Right)], Left))
        ELSE f

SedgewickMoveRedRight(h) ==
    LET f == FlipColor(h)
    IN  IF IsRed(NodeLeft(NodeLeft(f)))
        THEN FlipColor(Rotate(f, Right))
        ELSE f

\* C15: MoveRedLeft(h), for h with a right child, and MoveRedRight(h), for h
\* with a left child, return the subtree that the operation of the same name
\* in Sedgewick's deletion returns: same shape, keys and colours.
C15_MoveRedAsSedgewick ==
    /\ (last = "moveredleft" /\ NodeRight(arg) # Nil) =>
            (Completed /\ root = SedgewickMoveRedLeft(arg))
    /\ (last = "moveredright" /\ NodeLeft(arg) # Nil) =>
            (Completed /\ root = SedgewickMoveRedRight(arg))

\* invariants 1-4 on a subtree
ValidSub(n) ==
    Ordered(n) /\ LeftLeaning(n) /\ NoRedRed(n) /\ BlackBalanced(n)

NoRedWithRedLeft(n) == \A m \in Nodes(n) : IsRed(m) => ~IsRed(NodeLeft(m))

\* the two children of n are valid LLRB trees of equal black height
FixUpPre(n) ==
    /\ ValidSub(NodeLeft(n))
    /\ ValidSub(NodeRight(n))
    /\ BlackCounts(NodeLeft(n)) = BlackCounts(NodeRight(n))

\* invariants 2-4 hold under the root r returned for n, and the in-order key
\* sequence is the one of n
FixUpPost(n, r) ==
    /\ LeftLeaning(r)
    /\ NoRedWithRedLeft(r)
    /\ BlackBalanced(r)
    /\ InOrder(r) = InOrder(n)

\* C16, as stated: FixUp applied to a node whose two children are valid LLRB
\* trees of equal black height returns a root under which invariants 2-4
\* hold, with the in-order key sequence unchanged.
C16_FixUpRestores ==
    (last = "fixup" /\ FixUpPre(arg)) => FixUpPost(arg, root)

\* C16, amended: the same for a black node.
C16_FixUpRestoresUnderBlack ==
    (last = "fixup" /\ FixUpPre(arg) /\ arg.isBlack) => FixUpPost(arg, root)

\* FixUp was applied to a black node with two red children, each with
\* children of its own: it rotates left, rotates right and flips
C16_Witness ==
    /\ last = "fixup"
    /\ FixUpPre(arg)
    /\ arg.isBlack
    /\ IsRed(NodeLeft(arg))
    /\ IsRed(NodeRight(arg))
    /\ NodeLeft(NodeLeft(arg)) # Nil
    /\ NodeLeft(NodeRight(arg)) # Nil
    /\ IsRed(root)

\* C17: Rotate(root, d) with an existing pivot returns the pivot; the old
\* root is the pivot's d-side child; the pivot's former d-side child is the
\* old root's child on the opposite side; the pivot has the old root's colour
\* and the old root is red; the three subtrees hanging below the two nodes
\* are as they were, and the in-order key sequence is the same.
C17_RotateFrame ==
    \A d \in {Left, Right} :
        last = RotateName(d) =>
            LET x == arg.children[1 - d]
                old == root.children[d]
            IN  /\ root.Key = x.Key /\ root.Value = x.Value
                /\ root.isBlack = arg.isBlack
                /\ root.children[1 - d] = x.children[1 - d]
                /\ old.Key = arg.Key /\ old.Value = arg.Value
                /\ ~old.isBlack
                /\ old.children[d] = arg.children[d]
                /\ old.children[1 - d] = x.children[d]
                /\ InOrder(root) = InOrder(arg)

\* a black node was rotated to the right about a pivot of the other colour,
\* and the three subtrees below the two nodes all exist
C17_Witness ==
    /\ last = RotateName(Right)
    /\ arg.isBlack
    /\ IsRed(NodeLeft(arg))
    /\ NodeRight(arg) # Nil
    /\ NodeLeft(NodeLeft(arg)) # Nil
    /\ NodeRight(NodeLeft(arg)) # Nil

\* invariants 1-5 on the tree of the handle
ValidTree(n) == ValidSub(n) /\ ~IsRed(n)

\* C18: in a Tree.Delete(k) of a key of a tree that satisfies the LLRB
\* invariants and holds two keys or more, every recursive call of Delete and
\* DeleteMin enters a node that is red or has a red left child, and the node
\* detached is red when it is detached (stated for every Delete that can be
\* called in a reachable state).
C18_NeverRemovesBlack ==
    (Completed /\ ValidTree(root) /\ Size(root) >= 2) =>
        \A key \in KeySet(root) : DeleteSafe(root, key)

\* a Delete has completed on a tree that held seven keys or more and left a
\* valid tree
C18_Witness ==
    /\ Completed
    /\ last = "delete"
    /\ Size(root) >= 6
    /\ ValidTree(root)

\* the tree n with the value at the node of the key replaced
RECURSIVE WithValue(_, _, _)
WithValue(n, key, value) ==
    IF n = Nil THEN Nil
    ELSE IF n.Key = key THEN [n EXCEPT !.Value = value]
    ELSE [n EXCEPT !.children =
                      [d \in {Left, Right} |-> WithValue(n.children[d], key, value)]]

\* C19: Tree.Insert(k, v) of a key that is in a tree satisfying the LLRB
\* invariants completes and changes only the value stored at k: shape,
\* colours and the other key/value pairs are as before (stated for every
\* such Insert that can be called in a reachable state).
C19_OverwriteChangesOnlyValue ==
    (Completed /\ ValidTree(root)) =>
        \A key \in KeySet(root) : \A value \in VALS :
            TreeInsertCalls(key, value) = Ok(WithValue(root, key, value))

\* an Insert has completed on a valid tree of seven keys or more in which
\* key 1, the key the caller inserts with either value, is not at the root
\* and holds the greater value
C19_Witness ==
    /\ Completed
    /\ last = "insert"
    /\ ValidTree(root)
    /\ Size(root) >= 7
    /\ root.Key # 1
    /\ <<1, MaxVal>> \in Pairs(root)

====
